---- MODULE Spec2Model ----
(***************************************************************************)
(* Model of the dht22 package of tentbox (go/dht22/dht22.go): the DHT22    *)
(* sensor handle, the Manager's sensor map and the goroutine started by    *)
(* StartReadCycle.  Every goroutine of the read cycle is one entry of      *)
(* `tasks`; the callers of the exported methods are the environment.       *)
(***************************************************************************)
EXTENDS Integers, Sequences, FiniteSets, TLC

\* ---------------------------------------------------------------- bounds
MaxHandles == 2   \* NewDHT22 calls
MaxStarts  == 2   \* StartReadCycle calls (one goroutine and one channel each)
MaxCalls   == 5   \* calls the callers make on the package's API

\* ------------------------------------------------------- input alphabets
Pins      == {4, 19}
Names     == {"top of tent", "Living Room"}
Locations == {"tent", "Home"}

\* the sensors handles are constructed for, as (pin, name, location): the
\* test's sensor and the example configuration's
Descriptors == {<<19, "top of tent", "tent">>, <<4, "Living Room", "Home">>}

\* dht.ReadDHTxxWithRetry returns (temperature, humidity, retried, err); two
\* possible successful results, in whole units, chosen so that a pair mixed
\* from two calls, or from a call and the zero values, is not a result itself.
\* The conversion float64(float32) is exact.
DriverReadings == {<<21, 40>>, <<22, 41>>}

VARIABLES
    heap,       \* the allocated *DHT22 objects, by allocation index
    Sensors,    \* Manager.Sensors: map[int]*DHT22 (pin -> heap index)
    stopReading,\* Manager.stopReading: 0 is the nil channel, else a channel id
    closed,     \* the channels that have been closed
    tasks,      \* the goroutines spawned by StartReadCycle
    panicked,   \* a call panicked (close of a nil or of a closed channel)
    fatal,      \* the runtime threw "concurrent map iteration and map write"
    outcome,    \* history: result of the last completed read() of each handle
    regLog,     \* history: the handles passed to AddSensor so far
    atStart,    \* history: the handles in the map at the last StartReadCycle
    calls       \* history: the number of API calls made so far

vars == <<heap, Sensors, stopReading, closed, tasks, panicked, fatal, outcome, regLog, atStart, calls>>

Handles == 1..Len(heap)
TaskIds == 1..Len(tasks)

\* a goroutine that has not reached the pass loop holds no pass data
NoPass == [todo |-> {}, cur |-> 0, rd |-> <<0, 0>>]

\* NewDHT22 with the pin also stored into a reading field
NewDHT22_PinAsReading(pin, name, location) ==
    [pin |-> pin, Name |-> name, Location |-> location, Temp |-> 0, Humidity |-> pin]

\* struct DHT22 as built by NewDHT22: Temp and Humidity take Go's zero value
NewDHT22(pin, name, location) ==
    [pin |-> pin, Name |-> name, Location |-> location, Temp |-> 0, Humidity |-> 0]

\* NewManager: an empty map and a nil stopReading channel
Init ==
    /\ heap = << >>
    /\ Sensors = << >>
    /\ stopReading = 0
    /\ closed = {}
    /\ tasks = << >>
    /\ panicked = FALSE
    /\ fatal = FALSE
    /\ outcome = << >>
    /\ regLog = {}
    /\ atStart = {}
    /\ calls = 0

\* the callers make a bounded number of calls
Called == calls < MaxCalls /\ calls' = calls + 1

\* the caller constructs a handle
New(pin, name, location) ==
    /\ ~panicked /\ ~fatal
    /\ Called
    /\ Len(heap) < MaxHandles
    /\ heap' = Append(heap, NewDHT22(pin, name, location))
    /\ outcome' = Append(outcome, "none")
    /\ UNCHANGED <<Sensors, stopReading, closed, tasks, panicked, fatal, regLog, atStart>>

\* SetName with the assignment of SetLocation left in
SetName_AlsoLocation(h, name) ==
    /\ ~panicked /\ ~fatal
    /\ Called
    /\ heap' = [heap EXCEPT ![h].Name = name, ![h].Location = name]
    /\ UNCHANGED <<Sensors, stopReading, closed, tasks, panicked, fatal, outcome, regLog, atStart>>

\* SetName behind a lock that read() would hold across its driver call
SetName_WaitsForRead(h, name) ==
    /\ ~panicked /\ ~fatal
    /\ Called
    /\ \A k \in 1..Len(tasks) : tasks[k].pc # "driver"
    /\ heap' = [heap EXCEPT ![h].Name = name]
    /\ UNCHANGED <<Sensors, stopReading, closed, tasks, panicked, fatal, outcome, regLog, atStart>>

\* d.SetName(name): Lock; d.Name = name; Unlock
SetName(h, name) ==
    /\ ~panicked /\ ~fatal
    /\ Called
    /\ heap' = [heap EXCEPT ![h].Name = name]
    /\ UNCHANGED <<Sensors, stopReading, closed, tasks, panicked, fatal, outcome, regLog, atStart>>

\* d.SetLocation(location): Lock; d.Location = location; Unlock
SetLocation(h, location) ==
    /\ ~panicked /\ ~fatal
    /\ Called
    /\ heap' = [heap EXCEPT ![h].Location = location]
    /\ UNCHANGED <<Sensors, stopReading, closed, tasks, panicked, fatal, outcome, regLog, atStart>>

\* goroutines that are inside `for _, sensor := range dm.Sensors`
InPass(k) == tasks[k].pc \in {"iter", "driver", "wTemp", "wHumidity"}

\* the map write keyed by the number of entries instead of the pin
MapStore_ByCount(m, pin, h) ==
    [p \in DOMAIN m \cup {Cardinality(DOMAIN m)} |->
        IF p = Cardinality(DOMAIN m) THEN h ELSE m[p]]

\* dm.Sensors[pin] = handle, as a map write
MapStore(m, pin, h) == [p \in DOMAIN m \cup {pin} |-> IF p = pin THEN h ELSE m[p]]

\* dm.AddSensor(dht): dm.Sensors[dht.pin] = dht.  A key inserted while a
\* goroutine ranges over the map may or may not be produced by that range
\* (Go spec, "For statements with range clause"): `seen` are the goroutines
\* whose running pass will produce it.
AddSensor(h, seen) ==
    /\ ~panicked /\ ~fatal
    /\ Called
    /\ Sensors' = MapStore(Sensors, heap[h].pin, h)
    /\ regLog' = regLog \cup {h}
    /\ tasks' = [k \in TaskIds |->
                   IF k \in seen /\ heap[h].pin \notin DOMAIN Sensors
                   THEN [tasks[k] EXCEPT !.todo = @ \cup {heap[h].pin}]
                   ELSE tasks[k]]
    /\ UNCHANGED <<heap, stopReading, closed, panicked, fatal, outcome, atStart>>

\* goroutine k is in its pass loop and about to read the map: the range
\* starts or produces its next entry at k's next step
MapReadPending(k) == tasks[k].pc \in {"iter", "sleep"}

\* dm.AddSensor(dht) whose unsynchronised map write overlaps a goroutine's
\* read of the map: the runtime detects it and ends the process
AddSensorRace(h) ==
    /\ ~panicked /\ ~fatal
    /\ Called
    /\ \E k \in TaskIds : MapReadPending(k)
    /\ fatal' = TRUE
    /\ UNCHANGED <<heap, Sensors, stopReading, closed, tasks, panicked, outcome, regLog, atStart>>

\* dm.StartReadCycle(interval): a fresh channel replaces dm.stopReading and a
\* goroutine is spawned; nothing is checked first
StartReadCycle ==
    /\ ~panicked /\ ~fatal
    /\ Called
    /\ Len(tasks) < MaxStarts
    /\ stopReading' = Len(tasks) + 1
    /\ tasks' = Append(tasks, [pc |-> "spawned", ch |-> 0] @@ NoPass)
    /\ atStart' = {Sensors[p] : p \in DOMAIN Sensors}
    /\ UNCHANGED <<heap, Sensors, closed, panicked, fatal, outcome, regLog>>

\* dm.StopReadCycle(): close(dm.stopReading).  Closing a nil channel and
\* closing a closed channel panic; the call returns at once otherwise.
StopReadCycle ==
    /\ ~panicked /\ ~fatal
    /\ Called
    /\ IF stopReading = 0 \/ stopReading \in closed
       THEN panicked' = TRUE /\ closed' = closed
       ELSE panicked' = FALSE /\ closed' = closed \cup {stopReading}
    /\ UNCHANGED <<heap, Sensors, stopReading, tasks, fatal, outcome, regLog, atStart>>

\* the goroutine reaches `select` and evaluates dm.stopReading there
TaskSelect(k) ==
    /\ ~panicked /\ ~fatal
    /\ tasks[k].pc = "spawned"
    /\ tasks' = [tasks EXCEPT ![k].pc = "select", ![k].ch = stopReading]
    /\ UNCHANGED <<heap, Sensors, stopReading, closed, panicked, fatal, outcome, regLog, atStart, calls>>

\* case <-dm.stopReading: ticker.Stop(); return
TaskStop(k) ==
    /\ ~panicked /\ ~fatal
    /\ tasks[k].pc = "select"
    /\ tasks[k].ch \in closed
    /\ tasks' = [tasks EXCEPT ![k].pc = "exited"]
    /\ UNCHANGED <<heap, Sensors, stopReading, closed, panicked, fatal, outcome, regLog, atStart, calls>>

\* the range statement starts over the keys the map holds now
BeginPass(k) == [tasks EXCEPT ![k].pc = "iter", ![k].todo = DOMAIN Sensors]

\* the goroutine reaches `select` when the ticker has already fired (it was
\* not scheduled for an interval): the tick case can be chosen even if
\* dm.stopReading is closed, select picks among the ready cases at random
TaskSelectTick(k) ==
    /\ ~panicked /\ ~fatal
    /\ tasks[k].pc = "spawned"
    /\ tasks' = [BeginPass(k) EXCEPT ![k].ch = stopReading]
    /\ UNCHANGED <<heap, Sensors, stopReading, closed, panicked, fatal, outcome, regLog, atStart, calls>>

\* case <-ticker.C: the first tick reaches the goroutine parked in `select`
\* and it enters `for { ... }`; a close of its channel that came first has
\* already woken it with the stop case
TaskTick(k) ==
    /\ ~panicked /\ ~fatal
    /\ tasks[k].pc = "select"
    /\ tasks[k].ch \notin closed
    /\ tasks' = BeginPass(k)
    /\ UNCHANGED <<heap, Sensors, stopReading, closed, panicked, fatal, outcome, regLog, atStart, calls>>

\* the range produces the next entry and sensor.read() calls the driver
TaskNext(k, p) ==
    /\ ~panicked /\ ~fatal
    /\ tasks[k].pc = "iter"
    /\ p \in tasks[k].todo
    /\ tasks' = [tasks EXCEPT ![k].pc = "driver", ![k].todo = @ \ {p},
                              ![k].cur = Sensors[p]]
    /\ UNCHANGED <<heap, Sensors, stopReading, closed, panicked, fatal, outcome, regLog, atStart, calls>>

\* read() with the error path leaving the goroutine instead of the call
ReadFailed_LeavesLoop(k) ==
    [tasks EXCEPT ![k] = [pc |-> "exited", ch |-> @.ch] @@ NoPass]

\* what read() does to the goroutine when the driver returns err != nil:
\* print and return to the range loop
ReadFailed(k) ==
    [tasks EXCEPT ![k].pc = "iter", ![k].cur = 0]

\* read() with the error path storing the zero values returned with err
DriverFail_StoresZero(k) ==
    /\ ~panicked /\ ~fatal
    /\ tasks[k].pc = "driver"
    /\ tasks' = ReadFailed(k)
    /\ heap' = [heap EXCEPT ![tasks[k].cur].Temp = 0, ![tasks[k].cur].Humidity = 0]
    /\ outcome' = [outcome EXCEPT ![tasks[k].cur] = "fail"]
    /\ UNCHANGED <<Sensors, stopReading, closed, panicked, fatal, regLog, atStart, calls>>

\* the driver returns an error after its retries
DriverFail(k) ==
    /\ ~panicked /\ ~fatal
    /\ tasks[k].pc = "driver"
    /\ tasks' = ReadFailed(k)
    /\ outcome' = [outcome EXCEPT ![tasks[k].cur] = "fail"]
    /\ UNCHANGED <<heap, Sensors, stopReading, closed, panicked, fatal, regLog, atStart, calls>>

\* the driver returns a reading
DriverOk(k, r) ==
    /\ ~panicked /\ ~fatal
    /\ tasks[k].pc = "driver"
    /\ tasks' = [tasks EXCEPT ![k].pc = "wTemp", ![k].rd = r]
    /\ UNCHANGED <<heap, Sensors, stopReading, closed, panicked, fatal, outcome, regLog, atStart, calls>>

\* d.Temp = float64(temperature), written without holding d's lock
WriteTemp(k) ==
    /\ ~panicked /\ ~fatal
    /\ tasks[k].pc = "wTemp"
    /\ heap' = [heap EXCEPT ![tasks[k].cur].Temp = tasks[k].rd[1]]
    /\ tasks' = [tasks EXCEPT ![k].pc = "wHumidity"]
    /\ UNCHANGED <<Sensors, stopReading, closed, panicked, fatal, outcome, regLog, atStart, calls>>

\* d.Humidity = float64(humidity), written without holding d's lock
WriteHumidity(k) ==
    /\ ~panicked /\ ~fatal
    /\ tasks[k].pc = "wHumidity"
    /\ heap' = [heap EXCEPT ![tasks[k].cur].Humidity = tasks[k].rd[2]]
    /\ tasks' = [tasks EXCEPT ![k].pc = "iter", ![k].cur = 0, ![k].rd = <<0, 0>>]
    /\ outcome' = [outcome EXCEPT ![tasks[k].cur] = "ok"]
    /\ UNCHANGED <<Sensors, stopReading, closed, panicked, fatal, regLog, atStart, calls>>

\* the range is exhausted: time.Sleep(interval)
TaskSleep(k) ==
    /\ ~panicked /\ ~fatal
    /\ tasks[k].pc = "iter"
    /\ tasks[k].todo = {}
    /\ tasks' = [tasks EXCEPT ![k].pc = "sleep"]
    /\ UNCHANGED <<heap, Sensors, stopReading, closed, panicked, fatal, outcome, regLog, atStart, calls>>

\* the sleep ends and the unconditional `for` starts the next pass
TaskWake(k) ==
    /\ ~panicked /\ ~fatal
    /\ tasks[k].pc = "sleep"
    /\ tasks' = BeginPass(k)
    /\ UNCHANGED <<heap, Sensors, stopReading, closed, panicked, fatal, outcome, regLog, atStart, calls>>

\* one step of goroutine k
TaskStep(k) ==
    /\ k \in TaskIds
    /\ \/ TaskSelect(k)
       \/ TaskSelectTick(k)
       \/ TaskStop(k)
       \/ TaskTick(k)
       \/ \E p \in Pins : TaskNext(k, p)
       \/ DriverFail(k)
       \/ \E r \in DriverReadings : DriverOk(k, r)
       \/ WriteTemp(k)
       \/ WriteHumidity(k)
       \/ TaskSleep(k)
       \/ TaskWake(k)

Next ==
    \/ \E d \in Descriptors : New(d[1], d[2], d[3])
    \/ \E h \in Handles, name \in Names : SetName(h, name)
    \/ \E h \in Handles, location \in Locations : SetLocation(h, location)
    \/ \E h \in Handles, seen \in SUBSET {k \in TaskIds : InPass(k)} : AddSensor(h, seen)
    \/ \E h \in Handles : AddSensorRace(h)
    \/ StartReadCycle
    \/ StopReadCycle
    \/ \E k \in TaskIds : TaskStep(k)

Spec == Init /\ [][Next]_vars

\* the Go scheduler runs every runnable goroutine, the driver call returns
\* and the timers fire
FairSpec == Spec /\ \A k \in 1..MaxStarts : WF_vars(TaskStep(k))

\* a fresh Manager on which handles are only constructed, with any
\* arguments, and registered
NextRegister ==
    \/ \E pin \in Pins, name \in Names, location \in Locations : New(pin, name, location)
    \/ \E h \in Handles : AddSensor(h, {})

SpecRegister == Init /\ [][NextRegister]_vars

\* ------------------------------------------------------------- Snapshot
\* strconv's decimal rendering of a map key, as the sequence of its digits
RECURSIVE Itoa(_)
Itoa(n) == IF n < 10 THEN <<n>> ELSE Append(Itoa(n \div 10), n % 10)

\* json.Marshal of one *DHT22: the exported fields under their json tags
MarshalDHT22(d) ==
    [name |-> d.Name, location |-> d.Location, temp |-> d.Temp, humidity |-> d.Humidity]

\* the pin whose rendering is the given key
PinOfKey(key) == CHOOSE p \in DOMAIN Sensors : Itoa(p) = key

\* dm.String(): json.Marshal(dm), the map under "dht22" keyed by the pins
\* rendered as strings; the fields are read without any lock
String ==
    [dht22 |-> [key \in {Itoa(p) : p \in DOMAIN Sensors} |->
                   MarshalDHT22(heap[Sensors[PinOfKey(key)]])]]

\* the cycle has been started and not stopped since
Running == stopReading # 0 /\ stopReading \notin closed

\* goroutine k is inside sensor.read()
InRead(k) == tasks[k].pc \in {"driver", "wTemp", "wHumidity"}

\* goroutine k is inside the `for { ... }` of the ticker case
InLoop(k) == InPass(k) \/ tasks[k].pc = "sleep"

\* a step in which the driver call of goroutine k returns without a reading
DriverFailedStep(k) ==
    /\ k \in TaskIds
    /\ tasks[k].pc = "driver"
    /\ tasks'[k].pc \notin {"driver", "wTemp"}

\* --------------------------------------------------------------- claims

\* C1: once StopReadCycle has returned, no read() is in progress or begins:
\* whenever the channel in dm.stopReading is closed, no goroutine is inside
\* read().
C1_NoReadAfterStop ==
    (~panicked /\ stopReading # 0 /\ stopReading \in closed)
        => \A k \in TaskIds : ~InRead(k)

\* C2: AddSensor of a handle whose pin is already a key of the map leaves
\* the map unchanged.
C2_DuplicateLeavesMap ==
    [][\A h \in Handles :
          ((\E seen \in SUBSET TaskIds : AddSensor(h, seen))
             /\ heap[h].pin \in DOMAIN Sensors)
          => Sensors' = Sensors]_vars

\* C3: StartReadCycle while the cycle is Running spawns no goroutine and
\* does not replace the stop channel.
C3_StartWhileRunningNoChange ==
    [][(Running /\ StartReadCycle)
          => (tasks' = tasks /\ stopReading' = stopReading)]_vars

\* C4: StopReadCycle never panics, whatever the lifecycle state it is
\* called in.
C4_StopNeverPanics == ~panicked

\* C5: every entry of the snapshot shows a (temp, humidity) pair that comes
\* from one driver read, or the initial pair of zero values.
C5_NoTornReading ==
    \A key \in DOMAIN String.dht22 :
        <<String.dht22[key].temp, String.dht22[key].humidity>>
            \in DriverReadings \cup {<<0, 0>>}

\* C6: a read() whose driver call fails leaves every field of every handle
\* as it was: Temp, Humidity, Name, Location and pin.
C6_FailedReadKeepsFields ==
    [][\A k \in 1..MaxStarts : DriverFailedStep(k) => heap' = heap]_vars

\* C6 witness: a handle whose last read failed still shows the reading of an
\* earlier successful read.
C6_Witness ==
    \E h \in Handles :
        /\ outcome[h] = "fail"
        /\ <<heap[h].Temp, heap[h].Humidity>> \in DriverReadings

\* C7: the snapshot entry of a handle carries a lastError exactly when the
\* last completed read() of that handle failed.
C7_LastErrorTracksOutcome ==
    \A p \in DOMAIN Sensors :
        (outcome[Sensors[p]] = "fail")
            <=> ("lastError" \in DOMAIN String.dht22[Itoa(p)])

\* the handles passed to AddSensor have pairwise distinct pins
DistinctRegistered ==
    \A g, h \in regLog : heap[g].pin = heap[h].pin => g = h

\* C8: after AddSensor calls with pairwise distinct pins on a Manager that
\* was never started, the snapshot has exactly the registered pins as keys,
\* each with the handle's name and location and with temp = 0, humidity = 0.
C8_SnapshotAfterRegister ==
    (DistinctRegistered /\ stopReading = 0) =>
        /\ DOMAIN String.dht22 = {Itoa(heap[h].pin) : h \in regLog}
        /\ \A h \in regLog :
              String.dht22[Itoa(heap[h].pin)] =
                  [name |-> heap[h].Name, location |-> heap[h].Location,
                   temp |-> 0, humidity |-> 0]

\* C8 witness: two handles with distinct pins have been registered.
C8_Witness ==
    /\ DistinctRegistered
    /\ Cardinality(regLog) = 2
    /\ Cardinality(DOMAIN String.dht22) = 2

\* C9: while the cycle is Running, every handle that was in the map at
\* StartReadCycle is eventually read, and a reading the driver returned for a
\* handle eventually shows as that handle's Temp and Humidity.
C9_EventuallyRefreshed ==
    /\ \A h \in 1..MaxHandles :
          (Running /\ h \in atStart)
              ~> (~Running \/ panicked \/ fatal \/ (h \in Handles /\ outcome[h] # "none"))
    /\ \A k \in 1..MaxStarts, h \in 1..MaxHandles, r \in DriverReadings :
          (Running /\ k \in TaskIds /\ tasks[k].pc = "wTemp"
                   /\ tasks[k].cur = h /\ tasks[k].rd = r)
              ~> (~Running \/ panicked \/ fatal
                    \/ (h \in Handles /\ heap[h].Temp = r[1] /\ heap[h].Humidity = r[2]))

\* C10: a failed driver call returns the goroutine to the range loop with
\* the rest of the pass still to do and leaves the other goroutines alone,
\* and a goroutine that is in the pass loop stays in it.
C10_FailureKeepsPolling ==
    [][\A k \in 1..MaxStarts :
          /\ DriverFailedStep(k) =>
                /\ tasks'[k].pc = "iter"
                /\ tasks'[k].todo = tasks[k].todo
                /\ \A j \in TaskIds \ {k} : tasks'[j] = tasks[j]
          /\ (k \in TaskIds /\ InLoop(k)) => InLoop(k)']_vars

\* C10 witness: in one pass the read of one handle failed and the read of
\* another handle, made after it, succeeded; the pass is over and the
\* goroutine sleeps until the next one.
C10_Witness ==
    \E k \in TaskIds, g, h \in Handles :
        /\ g # h
        /\ tasks[k].pc = "sleep"
        /\ outcome[g] = "fail"
        /\ outcome[h] = "ok"

\* the process is running: no panic and no fatal error has ended it
Alive == ~panicked /\ ~fatal

\* C11: an address in the mapping can be unregistered while the cycle is
\* Running: as long as the process runs and callers have calls left, some
\* call of the package removes the address from the mapping and so from
\* every later snapshot.
C11_UnregisterRemoves ==
    \A p \in DOMAIN Sensors :
        (Alive /\ Running /\ calls < MaxCalls)
            => ENABLED (Next /\ calls' = calls + 1 /\ p \notin DOMAIN Sensors')

\* StopReadCycle has returned and the cycle has not been started again
Stopped == stopReading # 0 /\ stopReading \in closed

\* C12: once StopReadCycle has been called on a Running manager, every
\* goroutine of the read cycle eventually exits, unless the cycle is started
\* again or the process ends first.
C12_StopEventuallyExits ==
    (Alive /\ Stopped)
        ~> (~Alive \/ Running \/ \A k \in TaskIds : tasks[k].pc = "exited")

\* the goroutines of the read cycle that have not returned
AliveTasks == {k \in TaskIds : tasks[k].pc # "exited"}

\* C13: at most one goroutine of the read cycle is alive at any time.
C13_AtMostOneTask == Cardinality(AliveTasks) <= 1

\* a step that is a call of dm.AddSensor(h), whichever way it ends
AddSensorStep(h) ==
    \/ \E seen \in SUBSET TaskIds : AddSensor(h, seen)
    \/ AddSensorRace(h)

\* C14: the map write of AddSensor never runs while a goroutine has a range
\* over the map in progress, and the runtime never finds a map write
\* overlapping a map read.
C14_MapAccessExclusive ==
    [][\A h \in Handles :
          AddSensorStep(h) => (~fatal' /\ \A k \in TaskIds : ~InPass(k))]_vars

\* C15: the keys a running pass still has to visit never grow: a handle
\* registered while the pass is in flight is not read by that pass.
C15_PassKeysFixedAtStart ==
    [][\A k \in TaskIds :
          (InPass(k) /\ InPass(k)') => tasks'[k].todo \subseteq tasks[k].todo]_vars

\* the mapping and the cycle state are left as they are
ManagerUnchanged == UNCHANGED <<Sensors, stopReading, closed, tasks, panicked, fatal>>

\* of handle h only the field `field` may differ after the step, and no
\* other handle differs
OnlyFieldChanged(h, field) ==
    /\ DOMAIN heap' = DOMAIN heap
    /\ \A g \in Handles \ {h} : heap'[g] = heap[g]
    /\ \A f \in DOMAIN heap[h] \ {field} : heap'[h][f] = heap[h][f]

\* C16: SetName changes the Name of its handle and nothing else, SetLocation
\* the Location and nothing else: the handle's other fields, the other
\* handles, the mapping and the cycle state stay, and the snapshot taken
\* after the call shows the new value.
C16_RenameRelocateFrame ==
    [][\A h \in Handles :
          /\ \A name \in Names : SetName(h, name) =>
                /\ heap'[h].Name = name
                /\ OnlyFieldChanged(h, "Name")
                /\ ManagerUnchanged
                /\ \A p \in DOMAIN Sensors' :
                      Sensors'[p] = h => String'.dht22[Itoa(p)].name = name
          /\ \A location \in Locations : SetLocation(h, location) =>
                /\ heap'[h].Location = location
                /\ OnlyFieldChanged(h, "Location")
                /\ ManagerUnchanged
                /\ \A p \in DOMAIN Sensors' :
                      Sensors'[p] = h => String'.dht22[Itoa(p)].location = location]_vars

\* C16 witness: a registered handle that the cycle has read shows a name or
\* a location it was not constructed with.
C16_Witness ==
    \E p \in DOMAIN Sensors :
        /\ <<p, String.dht22[Itoa(p)].name, String.dht22[Itoa(p)].location>>
               \notin Descriptors
        /\ <<String.dht22[Itoa(p)].temp, String.dht22[Itoa(p)].humidity>>
               \in DriverReadings

\* C17: every entry of the map is stored under its handle's pin, so two
\* entries never have the same pin, and no step changes the pin of a handle.
C17_KeysAreAddresses ==
    /\ [](/\ \A p \in DOMAIN Sensors : heap[Sensors[p]].pin = p
          /\ \A p, q \in DOMAIN Sensors :
                heap[Sensors[p]].pin = heap[Sensors[q]].pin => p = q)
    /\ [][\A h \in Handles : heap'[h].pin = heap[h].pin]_vars

\* C17 witness: two handles are in the map under their two pins and a
\* goroutine of the cycle is reading one of them.
C17_Witness ==
    /\ Cardinality(DOMAIN Sensors) = 2
    /\ \E k \in TaskIds : InRead(k)

C19_EarlyStopNoRead ==
    [][(Alive /\ Stopped /\ \A k \in TaskIds : tasks[k].pc \in {"select", "exited"})
          => (Running' \/ \A k \in TaskIds : ~InLoop(k)')]_vars

====
